---- MODULE Spec2Model ----
(***************************************************************************)
(* A model of next-core's pages_structure.rs: the discovery of the pages   *)
(* root (find_pages_structure), the walk of one directory                  *)
(* (get_pages_structure_for_directory) and the change signals             *)
(* (routes_changed) of items, nodes and the optional root.                 *)
(*                                                                         *)
(* A name is a sequence of one-character strings, a path a sequence of     *)
(* names.  Every turbo-tasks function call is a handle (the function and   *)
(* its arguments); the value behind a handle is computed when the handle   *)
(* is awaited, never when the call is made.                                *)
(***************************************************************************)
EXTENDS Integers, Sequences, FiniteSets, TLC

VARIABLES
    fs,               \* the file system: entries [path, kind]
    failing,          \* the reads that fail now
    page_extensions,  \* the configured page extensions
    walk,             \* what the last consumer of find_pages_structure got
    cache,            \* the memoized tasks: their outputs and what they read
    hist              \* history: the changes made and the signals observed

vars == <<fs, failing, page_extensions, walk, cache, hist>>

---------------------------------------------------------------------------
(* Bounds of the model.                                                    *)

\* Entries below the pages roots (the roots themselves are not counted).
MaxEntries == 3

\* Reads (read_dir, get_type, page_extensions) that fail at the same time.
MaxFailing == 1

---------------------------------------------------------------------------
(* Names and bytes.                                                        *)

Alphabet == <<"a","b","c","d","e","f","g","h","i","j","k","l","m",
              "n","o","p","q","r","s","t","u","v","w","x","y","z">>

\* The byte of a character: String's Ord compares bytes.
Ord(c) ==
    CASE c = "." -> 46
      [] c = "[" -> 91
      [] c = "]" -> 93
      [] OTHER -> 96 + (CHOOSE i \in 1..Len(Alphabet) : Alphabet[i] = c)

Min(a, b) == IF a < b THEN a ELSE b

\* a < b for two names, as str's Ord: byte-wise lexicographic, a proper
\* prefix first.
NameLess(a, b) ==
    \E i \in 1..(Min(Len(a), Len(b)) + 1) :
        /\ \A j \in 1..(i - 1) : a[j] = b[j]
        /\ \/ i > Len(a) /\ i <= Len(b)
           \/ i <= Len(a) /\ i <= Len(b) /\ Ord(a[i]) < Ord(b[i])

\* str::starts_with
StartsWith(name, prefix) ==
    /\ Len(name) >= Len(prefix)
    /\ SubSeq(name, 1, Len(prefix)) = prefix

\* str::rsplit_once('.'): None, or the text before and after the last '.'.
RECURSIVE LastDot(_, _)
LastDot(name, i) ==
    IF i = 0 THEN 0
    ELSE IF name[i] = "." THEN i
    ELSE LastDot(name, i - 1)

\* str::split_once('.'): the split at the first '.' instead.
RECURSIVE FirstDot(_, _)
FirstDot(name, i) ==
    IF i > Len(name) THEN 0
    ELSE IF name[i] = "." THEN i
    ELSE FirstDot(name, i + 1)

SplitOnceDot(name) ==
    LET i == FirstDot(name, 1) IN
    IF i = 0 THEN [some |-> FALSE]
    ELSE [some |-> TRUE,
          basename |-> SubSeq(name, 1, i - 1),
          extension |-> SubSeq(name, i + 1, Len(name))]

RSplitOnceDot(name) ==
    LET i == LastDot(name, Len(name)) IN
    IF i = 0 THEN [some |-> FALSE]
    ELSE [some |-> TRUE,
          basename |-> SubSeq(name, 1, i - 1),
          extension |-> SubSeq(name, i + 1, Len(name))]

N_pages == <<"p","a","g","e","s">>
N_src == <<"s","r","c">>
N_api == <<"a","p","i">>
N_index == <<"i","n","d","e","x">>
N_ts == <<"t","s">>
N_md == <<"m","d">>

N_index_ts == <<"i","n","d","e","x",".","t","s">>
N_a_ts == <<"a",".","t","s">>
N_api_ts == <<"a","p","i",".","t","s">>
N_a_md == <<"a",".","m","d">>
N_a_b_ts == <<"a",".","b",".","t","s">>
N_dyn == <<"[","i","d","]">>
N_dyn_ts == <<"[","i","d","]",".","t","s">>
N_catch_ts == <<"[",".",".",".","s","]",".","t","s">>
N_optcatch_ts == <<"[","[",".",".",".","s","]","]",".","t","s">>

\* DirectoryEntry's variants: File, Directory, and the rest (Symlink, Other,
\* Error), which the walk treats alike.
Kinds == {"File", "Directory", "Other"}

Ent(name, kind) == [name |-> name, kind |-> kind]

\* The entries pages/ itself may get: route files, a file with no '.', one
\* with two, one with another extension, directories with and without
\* brackets, and an entry that is neither file nor directory.
PagesEntries ==
    {Ent(N_index_ts, "File"), Ent(N_a_ts, "File"), Ent(N_a_ts, "Other"),
     Ent(N_api_ts, "File"), Ent(N_api, "Directory"), Ent(N_api, "File"),
     Ent(N_a_md, "File"), Ent(N_a_b_ts, "File"),
     Ent(N_dyn, "Directory"), Ent(N_dyn_ts, "File"),
     Ent(N_catch_ts, "File"), Ent(N_optcatch_ts, "File")}

\* The entries a directory below pages/ may get.
SubEntries ==
    {Ent(N_index_ts, "File"), Ent(N_a_ts, "File"), Ent(N_dyn, "Directory"),
     Ent(N_catch_ts, "File"), Ent(N_a_md, "Directory")}

\* The entries a directory below pages/ may get when reads fail.
FailingEntries ==
    {Ent(N_index_ts, "File"), Ent(N_api, "Directory"), Ent(N_dyn, "Directory")}

\* The entries a directory below src/pages/ may get.
SrcPagesEntries == {Ent(N_index_ts, "File"), Ent(N_api, "Directory")}

\* The entries of the project root and of src/ that the code looks at.
ProjectEntries == {Ent(N_pages, "File"), Ent(N_pages, "Directory"), Ent(N_src, "Directory")}
SrcEntries == {Ent(N_pages, "Directory"), Ent(N_pages, "File")}

\* The page-extension configurations of next.config.js.
PageExtensionConfigs == {<<N_ts>>, <<N_md, N_ts>>}

---------------------------------------------------------------------------
(* The file system: a set of entries [path, kind] below the project root.  *)

project_root == <<>>
next_router_root == <<>>

Parent(path) == SubSeq(path, 1, Len(path) - 1)
Last(path) == path[Len(path)]

PagesDir == <<N_pages>>
SrcDir == <<N_src>>
SrcPagesDir == <<N_src, N_pages>>

IsPrefix(p, q) == Len(p) <= Len(q) /\ SubSeq(q, 1, Len(p)) = p

KindOf(f, path) ==
    IF \E e \in f : e.path = path
    THEN (CHOOSE e \in f : e.path = path).kind
    ELSE "NotFound"

\* The entries of directory `dir`.
ChildrenOf(f, dir) == {e \in f : Len(e.path) = Len(dir) + 1 /\ Parent(e.path) = dir}

\* The entries that count against MaxEntries.
RootPaths == {PagesDir, SrcDir, SrcPagesDir}
Counted(f) == {e \in f : e.path \notin RootPaths}

\* The pages root a path lies below, and its depth there.
UnderRoot(path, root) == IsPrefix(root, path) /\ Len(path) > Len(root)

---------------------------------------------------------------------------
(* The collaborators: paths, specificity, the reads of the file system.    *)

\* FileSystemPathVc::join with one segment.
Join(path, name) == Append(path, name)

\* FileSystemPathVc::is_inside: path lies strictly below context.
IsInside(path, context) ==
    /\ Len(path) > Len(context)
    /\ SubSeq(path, 1, Len(context)) = context

\* SpecificityVc: the markers added so far, in the order they were added.
Exact == <<>>
WithCatchAll(specificity, position) ==
    Append(specificity, [ty |-> "CatchAll", position |-> position])
WithDynamicSegment(specificity, position) ==
    Append(specificity, [ty |-> "DynamicSegment", position |-> position])

\* One read that may fail.
Read(kind, path) == [read |-> kind, path |-> path]
ConfigRead == Read("page_extensions", <<>>)

\* FileSystemPathVc::get_type.
GetType(env, path) ==
    IF Read("get_type", path) \in env.failing THEN "Err" ELSE KindOf(env.fs, path)

\* FileSystemPathVc::read_dir: the entries of the directory in the order of
\* env.order (any order), NotFound for no directory, or a failure.
ReadDir(env, path) ==
    IF Read("read_dir", path) \in env.failing THEN [kind |-> "Err"]
    ELSE IF KindOf(env.fs, path) # "Directory" THEN [kind |-> "NotFound"]
    ELSE LET listed == SelectSeq(env.order,
                           LAMBDA e : Len(e.path) = Len(path) + 1 /\ Parent(e.path) = path)
         IN [kind |-> "Entries",
             entries |-> [i \in 1..Len(listed) |->
                            [name |-> Last(listed[i].path),
                             kind |-> listed[i].kind,
                             path |-> listed[i].path]]]

---------------------------------------------------------------------------
(* pages_structure.rs                                                      *)

\* PagesStructureItemVc::new
ItemNew(project_path, next_router_path, specificity, is_api) ==
    IF is_api
    THEN [tag |-> "Api", project_path |-> project_path,
          next_router_path |-> next_router_path, specificity |-> specificity]
    ELSE [tag |-> "Page", project_path |-> project_path,
          next_router_path |-> next_router_path, specificity |-> specificity]

\* The handle of one call of get_pages_structure_for_directory (page_extensions
\* is the same handle in every call and is left out).
Handle(project_path, next_router_path, specificity, position, next_router_api_root) ==
    [project_path |-> project_path,
     next_router_path |-> next_router_path,
     specificity |-> specificity,
     position |-> position,
     next_router_api_root |-> next_router_api_root]

\* The specificity of an entry named `name` of a directory walked with
\* `specificity` at `position`.
EntrySpecificity(name, specificity, position) ==
    IF StartsWith(name, <<"[","[">>) \/ StartsWith(name, <<"[",".",".",".">>)
    THEN WithCatchAll(specificity, position)
    ELSE IF StartsWith(name, <<"[">>)
    THEN WithDynamicSegment(specificity, position)
    ELSE specificity

\* Every basename appended, index too.
ItemRouterPathIndexAppended(next_router_path, basename) ==
    Join(next_router_path, basename)

\* The router path of the file basename.<ext> of a directory with router
\* path next_router_path.
ItemRouterPath(next_router_path, basename) ==
    IF basename = N_index THEN next_router_path ELSE Join(next_router_path, basename)

\* The API test made on the file's place in the project: below a directory
\* named api.
ItemIsApiByProjectPath(h, file_project_path, next_router_path) ==
    \E i \in 1..(Len(file_project_path) - 1) : file_project_path[i] = N_api

\* Whether the item with this router path is an API route.
ItemIsApi(h, file_project_path, next_router_path) ==
    IsInside(next_router_path, h.next_router_api_root)

\* The sub directory walked at its parent's position.
ChildHandleSamePosition(h, name, dir_project_path, specificity) ==
    Handle(dir_project_path, Join(h.next_router_path, name), specificity,
           h.position, h.next_router_api_root)

\* The handle of the walk of the sub directory `name`.
ChildHandle(h, name, dir_project_path, specificity) ==
    Handle(dir_project_path, Join(h.next_router_path, name), specificity,
           h.position + 1, h.next_router_api_root)

\* One turn of the loop over the entries: acc holds items and children, each
\* a sequence of <<name, value>>.
WalkEntry(h, exts, e, acc) ==
    LET name == e.name
        specificity == EntrySpecificity(name, h.specificity, h.position)
    IN  CASE e.kind = "File" ->
               LET split == RSplitOnceDot(name) IN
               IF split.some /\ (\E k \in 1..Len(exts) : exts[k] = split.extension)
               THEN LET next_router_path ==
                            ItemRouterPath(h.next_router_path, split.basename)
                    IN [acc EXCEPT !.items = Append(@,
                          <<name, ItemNew(e.path, next_router_path, specificity,
                                          ItemIsApi(h, e.path, next_router_path))>>)]
               ELSE acc
          [] e.kind = "Directory" ->
               [acc EXCEPT !.children = Append(@,
                   <<name, ChildHandle(h, name, e.path, specificity)>>)]
          [] OTHER -> acc

RECURSIVE WalkEntries(_, _, _, _, _)
WalkEntries(h, exts, entries, i, acc) ==
    IF i > Len(entries) THEN acc
    ELSE WalkEntries(h, exts, entries, i + 1, WalkEntry(h, exts, entries[i], acc))

\* slice::sort_by_key on the name: a stable sort, ascending.  The place of
\* s[i] after the sort: behind the elements with a smaller name and behind
\* the earlier ones with the same name.
PlaceByKey(s, i) ==
    1 + Cardinality({j \in 1..Len(s) :
                        \/ NameLess(s[j][1], s[i][1])
                        \/ j < i /\ ~NameLess(s[i][1], s[j][1])})

SortByKey(s) ==
    [k \in 1..Len(s) |-> s[CHOOSE i \in 1..Len(s) : PlaceByKey(s, i) = k]]

\* The items in the order read_dir listed them: the sort left out.
SortItemsLeftOut(items) == items

SortItems(items) == SortByKey(items)

\* The children in the order read_dir listed them: the sort left out.
SortChildrenLeftOut(children) == children

SortChildren(children) == SortByKey(children)

Values(s) == [i \in 1..Len(s) |-> s[i][2]]

\* The element of a set of one: {F(x) : x \in {e}} has e evaluated once.
TheOne(S) == CHOOSE x \in S : TRUE

\* get_pages_structure_for_directory: the node of one directory, or a
\* failure.  The calls for the sub directories are handles: they are not
\* awaited here.
NodeOf(h, acc) ==
    [ok |-> TRUE,
     project_path |-> h.project_path,
     items |-> Values(SortItems(acc.items)),
     children |-> Values(SortChildren(acc.children))]

GetPagesStructureForDirectory(h, env) ==
    IF ConfigRead \in env.failing THEN [ok |-> FALSE]
    ELSE TheOne({
         IF dir_content.kind = "Err" THEN [ok |-> FALSE]
         ELSE TheOne({NodeOf(h, acc) : acc \in
                  {IF dir_content.kind = "Entries"
                   THEN WalkEntries(h, env.page_extensions, dir_content.entries, 1,
                                    [items |-> <<>>, children |-> <<>>])
                   ELSE [items |-> <<>>, children |-> <<>>]}})
         : dir_content \in {ReadDir(env, h.project_path)}})

\* The handle find_pages_structure makes for the root.
RootHandle(pages_root) ==
    Handle(pages_root, next_router_root, Exact, 0, Join(next_router_root, N_api))

\* find_pages_structure with src/pages looked at first.
FindPagesStructureSrcFirst(env) ==
    LET src_pages_root == Join(Join(project_root, N_src), N_pages)
        src_pages_type == GetType(env, src_pages_root)
    IN  IF src_pages_type = "Err" THEN [outcome |-> "Failed"]
        ELSE IF src_pages_type = "Directory"
        THEN [outcome |-> "Some", handle |-> RootHandle(src_pages_root)]
        ELSE LET pages_root == Join(project_root, N_pages)
                 pages_type == GetType(env, pages_root)
             IN  IF pages_type = "Err" THEN [outcome |-> "Failed"]
                 ELSE IF pages_type = "Directory"
                 THEN [outcome |-> "Some", handle |-> RootHandle(pages_root)]
                 ELSE [outcome |-> "None"]

\* find_pages_structure: a failure, None, or Some(handle of the root walk).
FindPagesStructure(env) ==
    LET pages_root == Join(project_root, N_pages)
        pages_type == GetType(env, pages_root)
    IN  IF pages_type = "Err" THEN [outcome |-> "Failed"]
        ELSE IF pages_type = "Directory"
        THEN [outcome |-> "Some", handle |-> RootHandle(pages_root)]
        ELSE LET src_pages_root == Join(Join(project_root, N_src), N_pages)
                 src_pages_type == GetType(env, src_pages_root)
             IN  IF src_pages_type = "Err" THEN [outcome |-> "Failed"]
                 ELSE IF src_pages_type = "Directory"
                 THEN [outcome |-> "Some", handle |-> RootHandle(src_pages_root)]
                 ELSE [outcome |-> "None"]

\* The tree a consumer sees when it awaits a handle and then every child
\* handle below it; a failed node has no fields.
RECURSIVE Unfold(_, _)
Unfold(h, env) ==
    LET n == GetPagesStructureForDirectory(h, env) IN
    IF ~n.ok THEN [ok |-> FALSE, handle |-> h]
    ELSE [ok |-> TRUE, handle |-> h, project_path |-> n.project_path,
          items |-> n.items,
          children |-> [i \in 1..Len(n.children) |-> Unfold(n.children[i], env)]]

\* PagesStructureItemVc::routes_changed succeeds: the item and its router
\* path are awaited, and neither read can fail.
ItemRoutesChangedOk(item) == item.tag \in {"Page", "Api"}

\* The child's failure dropped instead of passed on with `?`.
ChildAwaitFailureDropped(ok) == TRUE

\* Whether the child's routes_changed lets its caller go on.
ChildAwaitOk(ok) == ok

\* PagesStructureVc::routes_changed succeeds: the node, every item's signal
\* and every child's signal are awaited with `?`.
RECURSIVE RoutesChangedOk(_)
RoutesChangedOk(t) ==
    /\ t.ok
    /\ \A i \in 1..Len(t.items) : ItemRoutesChangedOk(t.items[i])
    /\ \A i \in 1..Len(t.children) : ChildAwaitOk(RoutesChangedOk(t.children[i]))

\* OptionPagesStructureVc::routes_changed on the result of
\* find_pages_structure, `tree` being what the root handle unfolds to.
OptionRoutesChangedOk(found, tree) ==
    /\ found.outcome # "Failed"
    /\ found.outcome = "Some" => RoutesChangedOk(tree)

---------------------------------------------------------------------------
(* The walk as a state machine: the file system and the configuration      *)
(* change, reads start and stop failing, and a consumer walks the tree.    *)

\* The orders in which the entries of S can be listed.
RECURSIVE Perms(_)
Perms(S) ==
    IF S = {} THEN {<<>>}
    ELSE UNION {{<<x>> \o p : p \in Perms(S \ {x})} : x \in S}

EnvOf(f, order) ==
    [fs |-> f, failing |-> failing, page_extensions |-> page_extensions,
     order |-> order]
Env(order) == EnvOf(fs, order)

\* No task has run, nothing has changed.
EmptyCache == [find |-> {}, walk |-> {}, item_rc |-> {}, rc |-> {}, opt_rc |-> {}]
NoHist == [changes |-> 0, dir_changes |-> {}, tree_changes |-> 0, calls |-> <<>>]

\* Whether `order` lists the entries of every directory in ascending order
\* of their names already.
ListedAscending(order) ==
    \A i, j \in 1..Len(order) :
        (i < j /\ Parent(order[i].path) = Parent(order[j].path))
            => NameLess(Last(order[i].path), Last(order[j].path))

\* What one consumer gets: the outcome of find_pages_structure, the tree
\* below the root handle, and whether routes_changed on the result succeeds.
WalkResult(env) ==
    LET found == FindPagesStructure(env)
        tree == IF found.outcome = "Some" THEN Unfold(found.handle, env)
                ELSE [ok |-> FALSE]
    IN  [find |-> found.outcome,
         tree |-> IF found.outcome = "Some" THEN <<tree>> ELSE <<>>,
         routes_changed_ok |-> OptionRoutesChangedOk(found, tree),
         listed_ascending |-> ListedAscending(env.order)]

\* No consumer has walked the current file system yet.
NoWalk == [find |-> "NotCalled"]

\* The entries directory `dir` may get.
Universe(dir) ==
    IF dir = project_root THEN ProjectEntries
    ELSE IF dir = SrcDir THEN SrcEntries
    ELSE IF IsPrefix(SrcPagesDir, dir) THEN SrcPagesEntries
    ELSE IF dir = PagesDir THEN PagesEntries
    ELSE SubEntries

FailingUniverse(dir) ==
    IF dir \in {project_root, SrcDir} THEN Universe(dir)
    ELSE IF dir = SrcPagesDir THEN FailingEntries \cap SrcPagesEntries \cap SubEntries
    ELSE IF IsPrefix(SrcPagesDir, dir) THEN {}
    ELSE IF dir = PagesDir THEN FailingEntries
    ELSE FailingEntries \cap SubEntries

Directories(f) == {project_root} \cup {e.path : e \in {x \in f : x.kind = "Directory"}}

\* The file system holds at most MaxEntries entries besides the roots.
WithinMaxEntries(dir, ent) ==
    Cardinality(Counted(fs)) < MaxEntries \/ Join(dir, ent.name) \in RootPaths

AddEntry(dir, ent) ==
    /\ dir \in Directories(fs)
    /\ KindOf(fs, Join(dir, ent.name)) = "NotFound"
    /\ fs' = fs \cup {[path |-> Join(dir, ent.name), kind |-> ent.kind]}
    /\ walk' = NoWalk
    /\ UNCHANGED <<failing, page_extensions>>

RemoveEntry(e) ==
    /\ e \in fs
    /\ ChildrenOf(fs, e.path) = {}
    /\ fs' = fs \ {e}
    /\ walk' = NoWalk
    /\ UNCHANGED <<failing, page_extensions>>

\* The reads the code can make in file system f.
Reads(f) ==
    {ConfigRead, Read("get_type", PagesDir), Read("get_type", SrcPagesDir)}
    \cup {Read("read_dir", e.path) :
            e \in {x \in f : x.kind = "Directory" /\ x.path # SrcDir}}

StartFailing(r) ==
    /\ r \in Reads(fs) \ failing
    /\ Cardinality(failing) < MaxFailing
    /\ failing' = failing \cup {r}
    /\ walk' = NoWalk
    /\ UNCHANGED <<fs, page_extensions>>

StopFailing(r) ==
    /\ r \in failing
    /\ failing' = failing \ {r}
    /\ walk' = NoWalk
    /\ UNCHANGED <<fs, page_extensions>>

ChangeConfig(exts) ==
    /\ exts \in PageExtensionConfigs \ {page_extensions}
    /\ page_extensions' = exts
    /\ walk' = NoWalk
    /\ UNCHANGED <<fs, failing>>

\* A consumer calls find_pages_structure, awaits the whole tree and asks for
\* the change signal; read_dir lists every directory in some order.
Walk ==
    /\ walk = NoWalk
    /\ \E order \in Perms(Counted(fs)) :
           walk' = WalkResult(Env(order))
    /\ UNCHANGED <<fs, failing, page_extensions, cache, hist>>

Init ==
    /\ fs = {}
    /\ failing = {}
    /\ page_extensions \in PageExtensionConfigs
    /\ walk = NoWalk
    /\ cache = EmptyCache
    /\ hist = NoHist

Next ==
    \/ \E dir \in Directories(fs) : \E ent \in Universe(dir) :
           WithinMaxEntries(dir, ent) /\ AddEntry(dir, ent) /\ UNCHANGED <<cache, hist>>
    \/ \E e \in fs : RemoveEntry(e) /\ UNCHANGED <<cache, hist>>
    \/ \E exts \in PageExtensionConfigs : ChangeConfig(exts) /\ UNCHANGED <<cache, hist>>
    \/ Walk

Spec == Init /\ [][Next]_vars

\* The same with reads that fail, over fewer entries.
NextFailing ==
    \/ \E dir \in Directories(fs) : \E ent \in FailingUniverse(dir) :
           WithinMaxEntries(dir, ent) /\ AddEntry(dir, ent) /\ UNCHANGED <<cache, hist>>
    \/ \E e \in fs : RemoveEntry(e) /\ UNCHANGED <<cache, hist>>
    \/ \E r \in Reads(fs) : StartFailing(r) /\ UNCHANGED <<cache, hist>>
    \/ \E r \in failing : StopFailing(r) /\ UNCHANGED <<cache, hist>>
    \/ Walk

FailingInit == Init /\ page_extensions = <<N_ts>>

FailingSpec == FailingInit /\ [][NextFailing]_vars

---------------------------------------------------------------------------
(* What the claims talk about.                                             *)

RECURSIVE TreeNodes(_)
TreeNodes(t) ==
    {t} \cup (IF t.ok THEN UNION {TreeNodes(t.children[i]) : i \in 1..Len(t.children)}
              ELSE {})

\* The nodes, read and failed, of the last walk.
WalkNodes == IF walk.find = "Some" THEN TreeNodes(walk.tree[1]) ELSE {}
OkNodes == {n \in WalkNodes : n.ok}
WalkItems == UNION {{n.items[i] : i \in 1..Len(n.items)} : n \in OkNodes}

\* The pages root of the last walk and a path as seen from it.
WalkRoot == walk.tree[1].handle.project_path
Below(path) == SubSeq(path, Len(WalkRoot) + 1, Len(path))

Ascending(names) ==
    \A i \in 1..(Len(names) - 1) : NameLess(names[i], names[i + 1])

ItemNames(n) == [i \in 1..Len(n.items) |-> Last(n.items[i].project_path)]
ChildNames(n) == [i \in 1..Len(n.children) |-> Last(n.children[i].handle.project_path)]

\* The text before and after the last '.' of a name that has one.
HasDot(name) == \E i \in 1..Len(name) : name[i] = "."
TheLastDot(name) ==
    CHOOSE i \in 1..Len(name) :
        name[i] = "." /\ \A j \in (i + 1)..Len(name) : name[j] # "."
BaseOf(name) == SubSeq(name, 1, TheLastDot(name) - 1)
ExtOf(name) == SubSeq(name, TheLastDot(name) + 1, Len(name))
Allowed(name) ==
    HasDot(name) /\ ExtOf(name) \in {page_extensions[k] : k \in 1..Len(page_extensions)}

\* One listing of the current file system, the same one in every state
\* with this file system.
RECURSIVE SomeOrder(_)
SomeOrder(S) ==
    IF S = {} THEN <<>>
    ELSE LET x == CHOOSE x \in S : TRUE IN <<x>> \o SomeOrder(S \ {x})
ReferenceOrder == SomeOrder(Counted(fs))

\* C1: in every node of a walk the items are in strictly ascending order of
\* their file names and the children in strictly ascending order of their
\* directory names; and the tree of a walk, in whatever order read_dir listed
\* the directories, is the tree of the walk of the same file system under
\* one fixed listing, so that any two walks of it give the same tree.
C1_SortedWhateverTheListing ==
    walk.find = "Some" =>
        /\ \A n \in OkNodes : Ascending(ItemNames(n)) /\ Ascending(ChildNames(n))
        /\ walk.tree = WalkResult(Env(ReferenceOrder)).tree

\* A directory with three routes was listed out of order.
C1_Witness ==
    /\ walk.find = "Some"
    /\ ~walk.listed_ascending
    /\ \E n \in OkNodes : Len(n.items) = 3

\* The router path of a directory, and of a file, from its place below the
\* pages root alone.
DirRouterPath(rel) == next_router_root \o rel
FileRouterPath(rel) ==
    LET dir == DirRouterPath(SubSeq(rel, 1, Len(rel) - 1))
        base == BaseOf(Last(rel))
    IN  IF base = N_index THEN dir ELSE dir \o <<base>>

\* C2: the router path of an item is that of its directory for index.<ext>
\* and that of its directory with the basename as one more segment for any
\* other file; a directory's router path is the router root for the pages
\* root and its parent's with its name appended below it.
C2_RouterPathFromLocation ==
    walk.find = "Some" =>
        /\ \A n \in WalkNodes :
               n.handle.next_router_path = DirRouterPath(Below(n.handle.project_path))
        /\ \A it \in WalkItems :
               it.next_router_path = FileRouterPath(Below(it.project_path))

\* A sub directory holds an index route and another route.
C2_Witness ==
    /\ walk.find = "Some"
    /\ \E n \in OkNodes :
           /\ n.handle.position >= 1
           /\ \E i, j \in 1..Len(n.items) :
                  /\ n.items[i].next_router_path = n.handle.next_router_path
                  /\ n.items[j].next_router_path # n.handle.next_router_path

\* C3: an item is an Api item exactly when its router path lies below
\* <router root>/api, and a Page item otherwise; two items with the same
\* router path are classified alike.
C3_ApiByRouterPath ==
    walk.find = "Some" =>
        /\ \A it \in WalkItems :
               /\ it.tag \in {"Api", "Page"}
               /\ it.tag = "Api" <=>
                      /\ Len(it.next_router_path) > Len(next_router_root) + 1
                      /\ SubSeq(it.next_router_path, 1, Len(next_router_root) + 1)
                             = next_router_root \o <<N_api>>
        /\ \A a, b \in WalkItems :
               a.next_router_path = b.next_router_path => a.tag = b.tag

\* api.<ext> of the pages root and index.<ext> of api/ share a router path.
C3_Witness ==
    /\ walk.find = "Some"
    /\ \E a, b \in WalkItems :
           /\ a.next_router_path = b.next_router_path
           /\ Last(a.project_path) = N_api_ts
           /\ Last(b.project_path) = N_index_ts

\* C8: the items of a node are exactly the File entries of its directory
\* whose name has a '.' and whose text after the last '.' is a configured
\* page extension; every Directory entry gives exactly one child node,
\* whatever its name and contents; nothing else is in the node.
C8_ItemsAreTheAllowedFiles ==
    walk.find = "Some" =>
        \A n \in WalkNodes :
            LET entries == ChildrenOf(fs, n.handle.project_path)
                files == {e \in entries : e.kind = "File" /\ Allowed(Last(e.path))}
                dirs == {e \in entries : e.kind = "Directory"}
            IN  /\ n.ok
                /\ {n.items[i].project_path : i \in 1..Len(n.items)}
                       = {e.path : e \in files}
                /\ Len(n.items) = Cardinality(files)
                /\ {n.children[i].handle.project_path : i \in 1..Len(n.children)}
                       = {e.path : e \in dirs}
                /\ Len(n.children) = Cardinality(dirs)

\* A directory holds a route with two dots beside a file with no '.' and an
\* entry that is neither file nor directory.
C8_Witness ==
    /\ walk.find = "Some"
    /\ \E n \in OkNodes :
           /\ Len(n.items) = 1
           /\ Last(n.items[1].project_path) = N_a_b_ts
           /\ \E e \in ChildrenOf(fs, n.project_path) :
                  e.kind = "File" /\ ~HasDot(Last(e.path))
           /\ \E e \in ChildrenOf(fs, n.project_path) : e.kind = "Other"

\* The markers of the bracketed segments of a path below the pages root,
\* each with its depth.
IsCatchAllName(name) ==
    \/ Len(name) >= 2 /\ name[1] = "[" /\ name[2] = "["
    \/ Len(name) >= 4 /\ name[1] = "[" /\ name[2] = "." /\ name[3] = "." /\ name[4] = "."
IsBracketName(name) == Len(name) >= 1 /\ name[1] = "["
MarkerOf(name, depth) ==
    [ty |-> IF IsCatchAllName(name) THEN "CatchAll" ELSE "DynamicSegment",
     position |-> depth]
RECURSIVE MarkersFrom(_, _)
MarkersFrom(rel, i) ==
    IF i > Len(rel) THEN <<>>
    ELSE (IF IsBracketName(rel[i]) THEN <<MarkerOf(rel[i], i - 1)>> ELSE <<>>)
         \o MarkersFrom(rel, i + 1)
Markers(rel) == MarkersFrom(rel, 1)

\* C9: the specificity of an item is exact() with one marker for every
\* bracketed segment between the pages root and the file, the file name
\* included: a catch-all marker for a name that starts with [[ or [..., a
\* dynamic-segment marker for any other name that starts with [, each at the
\* depth of its segment; a directory is walked with the markers of the
\* segments down to it, at its own depth.
C9_SpecificityFromSegments ==
    walk.find = "Some" =>
        /\ \A it \in WalkItems : it.specificity = Markers(Below(it.project_path))
        /\ \A n \in WalkNodes :
               /\ n.handle.specificity = Markers(Below(n.handle.project_path))
               /\ n.handle.position = Len(Below(n.handle.project_path))

\* A catch-all file two directories down, one of them dynamic.
C9_Witness ==
    /\ walk.find = "Some"
    /\ \E it \in WalkItems :
           /\ Len(Below(it.project_path)) = 3
           /\ Len(it.specificity) = 2
           /\ it.specificity[1].ty = "DynamicSegment"
           /\ it.specificity[2] = [ty |-> "CatchAll", position |-> 2]

\* The root handle find_pages_structure has to make for a pages root.
ExpectedRoot(pages_root) ==
    [project_path |-> pages_root,
     next_router_path |-> next_router_root,
     specificity |-> <<>>,
     position |-> 0,
     next_router_api_root |-> next_router_root \o <<N_api>>]

PagesTypeFails == Read("get_type", PagesDir) \in failing
SrcPagesTypeFails == Read("get_type", SrcPagesDir) \in failing

\* C4: when pages is a directory the tree is rooted there, whatever src/pages
\* is; when pages is anything else and src/pages is a directory the tree is
\* rooted at src/pages; when neither is a directory the result is None; the
\* result is a failure only when one of the two type queries fails.  The
\* root walk is at depth 0 with exact() and the API root <router root>/api.
C4_RootByPreference ==
    walk.find # "NotCalled" =>
        /\ (~PagesTypeFails /\ KindOf(fs, PagesDir) = "Directory") =>
               /\ walk.find = "Some"
               /\ walk.tree[1].handle = ExpectedRoot(PagesDir)
        /\ (/\ ~PagesTypeFails /\ KindOf(fs, PagesDir) # "Directory"
            /\ ~SrcPagesTypeFails /\ KindOf(fs, SrcPagesDir) = "Directory") =>
               /\ walk.find = "Some"
               /\ walk.tree[1].handle = ExpectedRoot(SrcPagesDir)
        /\ (/\ ~PagesTypeFails /\ KindOf(fs, PagesDir) # "Directory"
            /\ ~SrcPagesTypeFails /\ KindOf(fs, SrcPagesDir) # "Directory") =>
               walk.find = "None"
        /\ walk.find = "Failed" => PagesTypeFails \/ SrcPagesTypeFails

\* pages and src/pages are both directories, and src/pages holds a route.
C4_Witness ==
    /\ walk.find = "Some"
    /\ KindOf(fs, PagesDir) = "Directory"
    /\ KindOf(fs, SrcPagesDir) = "Directory"
    /\ KindOf(fs, Join(SrcPagesDir, N_index_ts)) = "File"

\* C7 as claimed: find_pages_structure never gives a tree one of whose
\* directories could not be read; a failed read of a directory or of the
\* page extensions makes it fail as a whole.
C7_NoTreeWithAFailedDirectory ==
    walk.find = "Some" => \A n \in WalkNodes : n.ok

\* C7, amended: a failed read is not recovered: the node of a directory is
\* there exactly when the page extensions and the directory itself could be
\* read, a failed node is never replaced by an empty one, and routes_changed
\* of a node, and of the optional root, succeeds exactly when every node of
\* the subtree is there.  find_pages_structure does not await the walk and
\* still gives Some.
C7_FailureFailsTheNodeAndTheSignal ==
    walk.find = "Some" =>
        /\ \A n \in WalkNodes :
               /\ n.ok <=> /\ ConfigRead \notin failing
                           /\ Read("read_dir", n.handle.project_path) \notin failing
               /\ RoutesChangedOk(n) <=> \A m \in TreeNodes(n) : m.ok
        /\ walk.routes_changed_ok <=> \A n \in WalkNodes : n.ok

\* The root was read and holds a route, a sub directory could not be read,
\* and the signal of the whole fails.
C7_Witness ==
    /\ walk.find = "Some"
    /\ walk.tree[1].ok
    /\ Len(walk.tree[1].items) = 1
    /\ \E i \in 1..Len(walk.tree[1].children) : ~walk.tree[1].children[i].ok
    /\ ~walk.routes_changed_ok

---------------------------------------------------------------------------
(* The change signals over the memoizing substrate.                        *)
(*                                                                         *)
(* Every call of a turbo-tasks function is a task, one per function and    *)
(* arguments.  A task runs when it is asked for and has not run, or has    *)
(* read something that changed since; awaiting a task waits until it has   *)
(* run.  A task's new output invalidates its readers when it differs from  *)
(* the old one; a Completion differs from every other.                     *)

\* File-system changes in one behaviour.
MaxChanges == 1

\* The entries the directories of the watched project may get.
IncDyn == Join(PagesDir, N_dyn)
IncDynDyn == Join(IncDyn, N_dyn)
IncApi == Join(PagesDir, N_api)
IncUniverse(dir) ==
    IF dir = PagesDir
    THEN {Ent(N_a_ts, "File"), Ent(N_a_md, "File"), Ent(N_dyn, "Directory"),
          Ent(N_api, "Directory")}
    ELSE IF dir = IncDyn
    THEN {Ent(N_index_ts, "File"), Ent(N_a_md, "File"), Ent(N_dyn, "Directory")}
    ELSE IF dir \in {IncDynDyn, IncApi}
    THEN {Ent(N_index_ts, "File")}
    ELSE {}

IncCandidates ==
    UNION {{[path |-> Join(dir, ent.name), kind |-> ent.kind] : ent \in IncUniverse(dir)} :
              dir \in {PagesDir, IncDyn, IncDynDyn, IncApi}}

\* The file systems a behaviour may start from: pages/ with its three
\* directories, the route files of pages/ and pages/api, and any of the
\* route files below pages/[id].
IncFileSystems ==
    {{[path |-> PagesDir, kind |-> "Directory"]} \cup f : f \in
        {g \in SUBSET IncCandidates :
            /\ \A d \in {IncDyn, IncDynDyn, IncApi} : [path |-> d, kind |-> "Directory"] \in g
            /\ [path |-> Join(PagesDir, N_a_ts), kind |-> "File"] \in g
            /\ [path |-> Join(IncApi, N_index_ts), kind |-> "File"] \in g
            /\ \A e \in g : Last(e.path) # N_a_md}}

\* What read_dir gives for a path, the order of the listing apart.
ReadDirValue(f, path) ==
    IF KindOf(f, path) # "Directory" THEN [kind |-> "NotFound", entries |-> {}]
    ELSE [kind |-> "Entries", entries |-> ChildrenOf(f, path)]

\* The routes and the directories of the tree of file system f.
TreeOf(f) ==
    LET found == FindPagesStructure(EnvOf(f, SomeOrder(Counted(f)))) IN
    IF found.outcome = "Some"
    THEN TreeNodes(Unfold(found.handle, EnvOf(f, SomeOrder(Counted(f)))))
    ELSE {}
RoutesOf(f) ==
    UNION {{n.items[i] : i \in 1..Len(n.items)} : n \in {m \in TreeOf(f) : m.ok}}

\* The tasks of the cache.
TheTask(tasks) == CHOOSE t \in tasks : TRUE
WalkTasks(h) == {t \in cache.walk : t.h = h}
RcTasks(h) == {t \in cache.rc : t.h = h}
ItemRcTasks(item) == {t \in cache.item_rc : t.item = item}
Clean(tasks) == tasks # {} /\ ~TheTask(tasks).dirty
GenOf(tasks) == IF tasks = {} THEN 0 ELSE TheTask(tasks).gen

\* Whether a cell written with `new` over `old` invalidates its readers.
CellChanged(old, new) == old # new

\* The children whose signal PagesStructureVc::routes_changed awaits.
RcAwaitsChildrenNone(node) == <<>>
RcAwaitsChildren(node) == node.children

\* The items whose signal PagesStructureVc::routes_changed awaits.
RcAwaitsItems(node) == node.items

\* The child walks get_pages_structure_for_directory awaits: none, the
\* calls are only made.
WalkAwaitsChildrenAll(node) == {node.children[i] : i \in 1..Len(node.children)}
WalkAwaitsChildren(node) == {}

Range(q) == {q[i] : i \in 1..Len(q)}

\* The handles whose node and signal the optional root's signal needs.
RECURSIVE DemandedFrom(_)
DemandedFrom(h) ==
    {h} \cup
    (IF Clean(WalkTasks(h))
     THEN UNION {DemandedFrom(c) :
                    c \in Range(RcAwaitsChildren(TheTask(WalkTasks(h)).out))
                          \cup WalkAwaitsChildren(TheTask(WalkTasks(h)).out)}
     ELSE {})

DemandedHandles ==
    IF Clean(cache.find) /\ TheTask(cache.find).out.outcome = "Some"
    THEN DemandedFrom(TheTask(cache.find).out.handle)
    ELSE {}

DemandedItems ==
    UNION {Range(RcAwaitsItems(TheTask(WalkTasks(h)).out)) :
              h \in {d \in DemandedHandles : Clean(WalkTasks(d))}}

Dirty(tasks, which) ==
    {IF which[t] THEN [t EXCEPT !.dirty = TRUE] ELSE t : t \in tasks}

\* find_pages_structure runs.
ExecFind ==
    /\ ~Clean(cache.find)
    /\ LET out == FindPagesStructure(Env(<<>>))
           changed == cache.find = {} \/ CellChanged(TheTask(cache.find).out, out)
       IN  cache' = [cache EXCEPT
               !.find = {[out |-> out, dirty |-> FALSE, gen |-> GenOf(cache.find) + 1]},
               !.opt_rc = Dirty(@, [t \in @ |-> changed])]
    /\ UNCHANGED <<fs, failing, page_extensions, walk, hist>>

\* get_pages_structure_for_directory runs for handle h: it reads the page
\* extensions and the listing of its directory, in some order.
ExecWalk(h) ==
    /\ h \in DemandedHandles
    /\ ~Clean(WalkTasks(h))
    /\ \E order \in Perms(ChildrenOf(fs, h.project_path)) :
           LET out == GetPagesStructureForDirectory(h, Env(order))
               changed == WalkTasks(h) = {}
                          \/ CellChanged(TheTask(WalkTasks(h)).out, out)
               awaited == WalkAwaitsChildren(out)
           IN  /\ \A c \in awaited : Clean(WalkTasks(c))
               /\ cache' = [cache EXCEPT
                      !.walk = (@ \ WalkTasks(h)) \cup
                               {[h |-> h, out |-> out, dirty |-> FALSE,
                                 gen |-> GenOf(WalkTasks(h)) + 1]},
                      !.rc = Dirty(@, [t \in @ |-> changed /\ t.h = h])]
    /\ UNCHANGED <<fs, failing, page_extensions, walk, hist>>

\* The cache after PagesStructureItemVc::routes_changed has run again for
\* item.  The item and its router path never change: nothing makes it.
ItemRcRun(item) ==
    [cache EXCEPT
        !.item_rc = (@ \ ItemRcTasks(item))
                    \cup {[item |-> item, dirty |-> FALSE,
                           gen |-> GenOf(ItemRcTasks(item)) + 1]},
        !.rc = Dirty(@, [t \in @ |-> item \in Range(RcAwaitsItems(t.saw))])]

\* The cache after PagesStructureVc::routes_changed has run for the node of
\* handle h: the signals of its items run with it, those that have not run
\* before.  `routes` is what has reached the signal: the routes of the node
\* and those that reached the children's signals.
RcRun(h) ==
    LET node == TheTask(WalkTasks(h)).out
        children == Range(RcAwaitsChildren(node))
    IN  [cache EXCEPT
            !.item_rc = @ \cup {[item |-> item, dirty |-> FALSE, gen |-> 1] :
                                   item \in {i \in Range(RcAwaitsItems(node)) :
                                                ItemRcTasks(i) = {}}},
            !.rc = Dirty(@ \ RcTasks(h),
                         [t \in @ \ RcTasks(h) |->
                             h \in Range(RcAwaitsChildren(t.saw))])
                   \cup {[h |-> h, saw |-> node, dirty |-> FALSE,
                          gen |-> GenOf(RcTasks(h)) + 1,
                          routes |-> Range(RcAwaitsItems(node)) \cup
                              UNION {TheTask(RcTasks(c)).routes : c \in children}]},
            !.opt_rc = Dirty(@, [t \in @ |->
                           t.saw.outcome = "Some" /\ t.saw.handle = h])]

\* The cache after OptionPagesStructureVc::routes_changed has run.
OptRcRun ==
    LET found == TheTask(cache.find).out IN
    [cache EXCEPT
        !.opt_rc = {[saw |-> found, dirty |-> FALSE,
                     gen |-> GenOf(cache.opt_rc) + 1,
                     routes |-> IF found.outcome = "Some"
                                THEN TheTask(RcTasks(found.handle)).routes
                                ELSE {}]}]

\* PagesStructureVc::routes_changed runs for the node of handle h: it awaits
\* the node, the signal of every item and the signal of every child, and
\* makes a new Completion.
ExecRc(h) ==
    /\ h \in DemandedHandles
    /\ ~Clean(RcTasks(h))
    /\ Clean(WalkTasks(h))
    /\ LET node == TheTask(WalkTasks(h)).out
           children == Range(RcAwaitsChildren(node))
       IN  /\ \A c \in children : Clean(RcTasks(c))
           /\ cache' = RcRun(h)
    /\ UNCHANGED <<fs, failing, page_extensions, walk, hist>>

\* OptionPagesStructureVc::routes_changed runs on the result of
\* find_pages_structure.
ExecOptRc ==
    /\ ~Clean(cache.opt_rc)
    /\ Clean(cache.find)
    /\ LET found == TheTask(cache.find).out IN
       /\ found.outcome = "Some" => Clean(RcTasks(found.handle))
       /\ cache' = OptRcRun
    /\ UNCHANGED <<fs, failing, page_extensions, walk, hist>>

\* The file system changes from fs to f: the tasks that read a listing or a
\* type that is now another are invalidated.
DirChanges(path) ==
    IF \E d \in hist.dir_changes : d.path = path
    THEN (CHOOSE d \in hist.dir_changes : d.path = path).n
    ELSE 0

\* An entry whose coming or going changes the routes or the directories
\* below pages/: a directory, or a file with a page extension after its
\* last dot.
IsRouteOrDirectory(e) ==
    \/ e.kind = "Directory"
    \/ e.kind = "File" /\ Allowed(Last(e.path))

Changed(f) ==
    /\ hist.changes < MaxChanges
    /\ cache' = [cache EXCEPT
           !.walk = Dirty(@, [t \in @ |->
                        ReadDirValue(f, t.h.project_path)
                            # ReadDirValue(fs, t.h.project_path)]),
           !.find = Dirty(@, [t \in @ |->
                        \/ KindOf(f, PagesDir) # KindOf(fs, PagesDir)
                        \/ KindOf(f, SrcPagesDir) # KindOf(fs, SrcPagesDir)])]
    /\ hist' = [hist EXCEPT
           !.changes = @ + 1,
           !.dir_changes =
               LET dirs == {e.path : e \in fs \cup f} \cup {d.path : d \in hist.dir_changes} IN
               {[path |-> d,
                 n |-> DirChanges(d)
                       + (IF ReadDirValue(f, d) # ReadDirValue(fs, d) THEN 1 ELSE 0)] :
                   d \in {x \in dirs : DirChanges(x) > 0
                                       \/ ReadDirValue(f, x) # ReadDirValue(fs, x)}},
           !.tree_changes =
               @ + (IF \E e \in (f \ fs) \cup (fs \ f) : IsRouteOrDirectory(e)
                    THEN 1 ELSE 0),
           !.calls = <<>>]

IncInit ==
    /\ fs \in IncFileSystems
    /\ failing = {}
    /\ page_extensions = <<N_ts>>
    /\ walk = NoWalk
    /\ cache = EmptyCache
    /\ hist = NoHist

Exec ==
    \/ ExecFind
    \/ \E h \in DemandedHandles : ExecWalk(h)
    \/ \E h \in DemandedHandles : ExecRc(h)
    \/ ExecOptRc

IncNext ==
    \/ \E dir \in Directories(fs) : \E ent \in IncUniverse(dir) :
           AddEntry(dir, ent) /\ Changed(fs')
    \/ \E e \in fs \ {[path |-> PagesDir, kind |-> "Directory"]} :
           RemoveEntry(e) /\ Changed(fs')
    \/ Exec

IncSpec == IncInit /\ [][IncNext]_vars

\* The substrate runs every task that is asked for and has to run.
FairIncSpec == IncSpec /\ WF_vars(Exec)

\* Calls of routes_changed from outside.  A call is a strongly consistent
\* read: it is answered when nothing it depends on is left to run.
Settled ==
    /\ Clean(cache.find)
    /\ Clean(cache.opt_rc)
    /\ \A h \in DemandedHandles : Clean(WalkTasks(h)) /\ Clean(RcTasks(h))

CallKeys ==
    {[kind |-> "option", node |-> <<>>]}
    \cup {[kind |-> "structure", node |-> <<h>>] : h \in DemandedHandles}
    \cup {[kind |-> "item", node |-> <<item>>] : item \in DemandedItems}

TasksOf(key) ==
    IF key.kind = "option" THEN cache.opt_rc
    ELSE IF key.kind = "structure" THEN RcTasks(key.node[1])
    ELSE ItemRcTasks(key.node[1])

RunOf(key) ==
    IF key.kind = "option" THEN OptRcRun
    ELSE IF key.kind = "structure" THEN RcRun(key.node[1])
    ELSE ItemRcRun(key.node[1])

\* #[turbo_tasks::function]: a call whose task has run and has nothing
\* changed below it is answered from the cache.
MemoizedNever(tasks) == FALSE
Memoized(tasks) == Clean(tasks)

SameKey(a, b) == a.kind = b.kind /\ a.node = b.node

Call(key) ==
    /\ Settled
    /\ Len(hist.calls) < 2
    /\ hist.calls # <<>> => SameKey(hist.calls[1].key, key)
    /\ IF Memoized(TasksOf(key))
       THEN /\ cache' = cache
            /\ hist' = [hist EXCEPT !.calls =
                           Append(@, [key |-> key, token |-> GenOf(TasksOf(key))])]
       ELSE /\ cache' = RunOf(key)
            /\ hist' = [hist EXCEPT !.calls =
                           Append(@, [key |-> key, token |-> GenOf(TasksOf(key)) + 1])]
    /\ UNCHANGED <<fs, failing, page_extensions, walk>>

CallNext ==
    \/ IncNext
    \/ \E key \in CallKeys : Call(key)

CallSpec == IncInit /\ [][CallNext]_vars

---------------------------------------------------------------------------
(* The claims about the change signals.                                    *)

OptRoutes == IF cache.opt_rc = {} THEN {} ELSE TheTask(cache.opt_rc).routes
Depth(path) == Len(path) - Len(PagesDir)

\* The signal of the optional root has been produced, and the routes that
\* reached it are not those of the file system: routes have changed since.
OptStale == cache.opt_rc # {} /\ OptRoutes # RoutesOf(fs)

\* C5: once the signal of the optional root has been produced, a change of
\* the routes of the tree, at any depth, leads to the signal being produced
\* again from the changed routes: the routes that reach a signal change only
\* when it runs, and every run makes a new token.
C5_DeepChangeReachesTheRoot == OptStale ~> ~OptStale

\* The signal has been produced again after the routes of a directory two
\* levels below pages/ changed, and has seen the change.
C5_Witness ==
    /\ GenOf(cache.opt_rc) >= 2
    /\ Clean(cache.opt_rc)
    /\ hist.tree_changes >= 1
    /\ DirChanges(IncDynDyn) = hist.changes
    /\ OptRoutes = RoutesOf(fs)
    /\ RcTasks(RootHandle(PagesDir)) # {}
    /\ GenOf(RcTasks(RootHandle(PagesDir))) >= 2

C10_OnlyTheChangedDirectoryIsWalkedAgain ==
    /\ \A t \in cache.walk : t.gen <= 1 + DirChanges(t.h.project_path)
    /\ \A t \in cache.rc \cup cache.opt_rc : t.gen <= 1 + hist.tree_changes

\* A file with an extension that is not allowed was added to pages/[id]:
\* its walk has run again, those of its parent, its sibling and its
\* subdirectory have not, and no signal has.
C10_Witness ==
    /\ Settled
    /\ hist.tree_changes = 0
    /\ DirChanges(IncDyn) = 1
    /\ {IncDyn, IncDynDyn, IncApi, PagesDir} \subseteq {t.h.project_path : t \in cache.walk}
    /\ \A t \in cache.walk : t.gen = IF t.h.project_path = IncDyn THEN 2 ELSE 1
    /\ \A t \in cache.rc \cup cache.opt_rc : t.gen = 1

====
